---- MODULE Spec2Model ----
(***************************************************************************)
(* Binary decision diagram engine of flow-rs: the textual parser           *)
(* (bdd/parse.rs), the evaluator (bdd/eval.rs), the node model             *)
(* (bdd/mod.rs), the formatter (bdd/display.rs) and the bit helper         *)
(* (lib.rs).                                                               *)
(*                                                                         *)
(* A text is a sequence of lines, a line is the sequence of its            *)
(* whitespace-separated tokens, a token is a string.  Machine integers     *)
(* are scaled down to a word of BITS bits: usize is 0 .. 2^BITS - 1 and    *)
(* isize is -2^(BITS-1) .. 2^(BITS-1) - 1.                                 *)
(***************************************************************************)
EXTENDS Integers, Sequences, FiniteSets, TLC

\* ------------------------------------------------------------------ bounds
\* width of the machine word (usize::BITS), scaled down
BITS == 3
\* longest node-line section of the exhaustively enumerated texts
MaxLines == 4
\* how many values more than the diagram has variables a caller may pass
MaxSurplus == 1
\* longest hex argument and longest bools argument typed at the shell
MaxHex == 3
MaxBools == 2

USIZE_MAX == 2^BITS - 1
ISIZE_MAX == 2^(BITS - 1) - 1
ISIZE_MIN == 0 - 2^(BITS - 1)

\* ------------------------------------------------------- Option and Result
None == <<>>
Some(x) == <<x>>
is_none(o) == o = <<>>
unwrap(o) == o[1]

Ok(v) == [ok |-> TRUE, val |-> v]
Err(kind, msg) == [ok |-> FALSE, kind |-> kind, msg |-> msg]

ParseError(msg) == Err("ParseError", msg)
EvaluationError(msg) == Err("EvaluationError", msg)
VariableAssignmentError(msg) == Err("VariableAssignmentError", msg)

\* --------------------------------------------------------- integer tokens
\* the decimal numerals the model's texts can contain
Numerals == { ToString(i) : i \in (0 - 2^BITS) .. 2^BITS }
NumeralTable ==
    [tok \in Numerals |-> CHOOSE i \in (0 - 2^BITS) .. 2^BITS : ToString(i) = tok]
NumeralValue(tok) == NumeralTable[tok]

\* str::parse::<usize>: a decimal numeral within 0 ..= usize::MAX
parse_usize(tok) ==
    IF tok \in Numerals /\ NumeralValue(tok) \in 0 .. USIZE_MAX
    THEN Ok(NumeralValue(tok))
    ELSE ParseError("Could not parse int")

\* str::parse::<isize>: a decimal numeral within isize::MIN ..= isize::MAX
parse_isize(tok) ==
    IF tok \in Numerals /\ NumeralValue(tok) \in ISIZE_MIN .. ISIZE_MAX
    THEN Ok(NumeralValue(tok))
    ELSE ParseError("Could not parse int")

\* `x as usize` on an isize: two's complement reinterpretation
as_usize(x) == x % (2^BITS)

\* ------------------------------------------------------------- node model
Decision(node) == [kind |-> "Decision", node |-> node]
Terminal(b) == [kind |-> "Terminal", value |-> b]

new_node(node_if_false, node_if_true, variable_id) ==
    [variable_id |-> variable_id, decision_map |-> <<node_if_false, node_if_true>>]

is_decision_node(n) == n.kind = "Decision"

\* an evaluate that takes the branches the wrong way round
evaluate_swapped(node, variable) ==
    IF variable = Some(FALSE) THEN Ok(node.decision_map[2])
    ELSE IF variable = Some(TRUE) THEN Ok(node.decision_map[1])
    ELSE EvaluationError("Cannot evaluate node for an unassigned variable.")
\* DecisionNode::evaluate; decision_map is indexed from 0 in the source
evaluate(node, variable) ==
    IF variable = Some(FALSE) THEN Ok(node.decision_map[1])
    ELSE IF variable = Some(TRUE) THEN Ok(node.decision_map[2])
    ELSE EvaluationError("Cannot evaluate node for an unassigned variable.")

\* HashMap::insert and the vacant-entry insert
insert(map, k, v) == [x \in DOMAIN map \cup {k} |-> IF x = k THEN v ELSE map[x]]
entry_or_insert(map, k, v) == IF k \in DOMAIN map THEN map ELSE insert(map, k, v)
EmptyMap == [x \in {} |-> 0]

\* ------------------------------------------------------------------ parser
\* the state of the line loop of from_str
ParseStart == [variables |-> EmptyMap, nodes |-> EmptyMap, entry_node |-> None]

\* one iteration of `for line in lines`: Ok(new loop state) or the `?` error
parse_line(st, line) ==
    IF Len(line) < 1 THEN ParseError("Node num not present")
    ELSE IF ~parse_usize(line[1]).ok THEN parse_usize(line[1])
    ELSE IF Len(line) < 2 THEN ParseError("True Node number not present")
    ELSE IF ~parse_isize(line[2]).ok THEN parse_isize(line[2])
    ELSE IF Len(line) < 3 THEN ParseError("False Node number not present")
    ELSE IF ~parse_isize(line[3]).ok THEN parse_isize(line[3])
    ELSE IF Len(line) < 4 THEN ParseError("Var ID not present")
    ELSE IF ~parse_usize(line[4]).ok THEN parse_usize(line[4])
    ELSE LET node_num == parse_usize(line[1]).val
             node_if_true == parse_isize(line[2]).val
             node_if_false == parse_isize(line[3]).val
             var_id == parse_usize(line[4]).val
         IN IF node_if_true < 0 /\ node_if_false < 0
            THEN Ok([st EXCEPT !.nodes = insert(@, node_num, Terminal(var_id = 1))])
            ELSE Ok([variables |-> entry_or_insert(st.variables, var_id, None),
                     nodes |-> insert(st.nodes, node_num,
                                  Decision(new_node(as_usize(node_if_false),
                                                    as_usize(node_if_true),
                                                    var_id))),
                     entry_node |-> IF is_none(st.entry_node)
                                    THEN Some(node_num) ELSE st.entry_node])

RECURSIVE parse_lines(_, _, _)
parse_lines(st, lines, i) ==
    IF i > Len(lines) THEN Ok(st)
    ELSE LET r == parse_line(st, lines[i])
         IN IF r.ok THEN parse_lines(r.val, lines, i + 1) ELSE r

has_terminal(nodes, b) == \E k \in DOMAIN nodes : nodes[k] = Terminal(b)

\* a polarity check that accepts either kind of terminal alone
either_terminal(nodes) == has_terminal(nodes, TRUE) \/ has_terminal(nodes, FALSE)
\* has_true && has_false after the scan of the terminal nodes
both_terminals(nodes) == has_terminal(nodes, TRUE) /\ has_terminal(nodes, FALSE)

\* the first token of a header line is skipped unread (`nth(1)`)
header_number(line, missing) ==
    IF Len(line) < 2 THEN ParseError(missing) ELSE parse_usize(line[2])

\* BinaryDecisionDiagram::from_str
from_str(s) ==
    IF Len(s) < 1 THEN ParseError("Variable line not present")
    ELSE IF Len(s) < 2 THEN ParseError("Node line not present")
    ELSE LET num_vars == header_number(s[1], "Var line does not specify number")
             num_nodes == header_number(s[2], "Node line does not specify number")
         IN IF ~num_vars.ok THEN num_vars
            ELSE IF ~num_nodes.ok THEN num_nodes
            ELSE LET r == parse_lines(ParseStart, s, 3)
                 IN IF ~r.ok THEN r
                    ELSE IF num_vars.val # Cardinality(DOMAIN r.val.variables)
                            \/ num_nodes.val # Cardinality(DOMAIN r.val.nodes)
                    THEN ParseError("Number of tokens does not match first lines")
                    ELSE IF ~both_terminals(r.val.nodes)
                    THEN ParseError("Not both types of terminal nodes.")
                    ELSE IF is_none(r.val.entry_node)
                    THEN ParseError("No entry node was set")
                    ELSE Ok([variables |-> r.val.variables,
                             nodes |-> r.val.nodes,
                             entry_node |-> unwrap(r.val.entry_node)])

\* --------------------------------------------------------------- evaluator
Keys(map) == DOMAIN map
len(map) == Cardinality(DOMAIN map)

\* the ascending and descending orders of a key set and their rotations:
\* the iteration orders of a HashMap the model explores
RECURSIVE Ascending(_)
Ascending(S) ==
    IF S = {} THEN <<>>
    ELSE LET m == CHOOSE x \in S : \A y \in S : x <= y
         IN <<m>> \o Ascending(S \ {m})
Reverse(q) == [i \in 1 .. Len(q) |-> q[Len(q) + 1 - i]]
Rotate(q, k) == [i \in 1 .. Len(q) |-> q[((i + k - 1) % Len(q)) + 1]]
IterOrders(S) ==
    IF S = {} THEN {<<>>}
    ELSE { Rotate(Ascending(S), k) : k \in 0 .. Cardinality(S) - 1 }
         \cup { Rotate(Reverse(Ascending(S)), k) : k \in 0 .. Cardinality(S) - 1 }

\* keys left in the order the map yields them
keys_unsorted(q) == q
\* <[usize]>::sort_unstable: insertion of each element into a sorted prefix
RECURSIVE sorted_insert(_, _)
sorted_insert(q, x) ==
    IF q = <<>> THEN <<x>>
    ELSE IF x <= Head(q) THEN <<x>> \o q
    ELSE <<Head(q)>> \o sorted_insert(Tail(q), x)
RECURSIVE sort_unstable(_)
sort_unstable(q) ==
    IF q = <<>> THEN <<>>
    ELSE sorted_insert(sort_unstable(Tail(q)), Head(q))

\* an assignment loop that inserts under the position instead of the key
RECURSIVE assign_loop_by_position(_, _, _, _)
assign_loop_by_position(variables, keys, bools, index) ==
    IF index > Len(keys) THEN variables
    ELSE assign_loop_by_position(insert(variables, index - 1, Some(bools[index])),
                                 keys, bools, index + 1)
\* an assignment loop that stops one key early
RECURSIVE assign_loop_short(_, _, _, _)
assign_loop_short(variables, keys, bools, index) ==
    IF index >= Len(keys) THEN variables
    ELSE assign_loop_short([variables EXCEPT ![keys[index]] = Some(bools[index])],
                           keys, bools, index + 1)
\* an assignment loop that fills only the variables that hold no value yet
RECURSIVE assign_loop_vacant(_, _, _, _)
assign_loop_vacant(variables, keys, bools, index) ==
    IF index > Len(keys) THEN variables
    ELSE assign_loop_vacant(IF variables[keys[index]] = None
                            THEN [variables EXCEPT ![keys[index]] = Some(bools[index])]
                            ELSE variables,
                            keys, bools, index + 1)
\* the assignment loop of assign_vars: keys[index] receives bools[index]
RECURSIVE assign_loop(_, _, _, _)
assign_loop(variables, keys, bools, index) ==
    IF index > Len(keys) THEN variables
    ELSE assign_loop([variables EXCEPT ![keys[index]] = Some(bools[index])],
                     keys, bools, index + 1)

\* an assign_vars that rejects every length other than the variable count
assign_vars_exact(d, values, order) ==
    IF Len(values) # len(d.variables)
    THEN [variables |-> d.variables,
          ret |-> VariableAssignmentError("The length of values is not the number of variables.")]
    ELSE LET assigned == assign_loop(d.variables, sort_unstable(order), values, 1)
         IN [variables |-> assigned,
             ret |-> Ok([i \in 1 .. Len(order) |-> unwrap(assigned[order[i]])])]
\* an assign_vars that keeps the last values of a longer sequence
assign_vars_tail(d, values, order) ==
    IF Len(values) < len(d.variables)
    THEN [variables |-> d.variables,
          ret |-> VariableAssignmentError(
              "The length of values is less than the number of variables to assign.")]
    ELSE LET bools == SubSeq(values, Len(values) - len(d.variables) + 1, Len(values))
             assigned == assign_loop(d.variables, sort_unstable(order), bools, 1)
         IN [variables |-> assigned,
             ret |-> Ok([i \in 1 .. Len(order) |-> unwrap(assigned[order[i]])])]
\* assign_vars; `order` is the iteration order of the variable map.
\* Yields the new variable map and the returned Result.
assign_vars(d, values, order) ==
    IF Len(values) < len(d.variables)
    THEN [variables |-> d.variables,
          ret |-> VariableAssignmentError(
              "The length of values is less than the number of variables to assign.")]
    ELSE LET bools == SubSeq(values, 1, len(d.variables))
             keys == sort_unstable(order)
             assigned == assign_loop(d.variables, keys, bools, 1)
         IN [variables |-> assigned,
             ret |-> IF \E k \in DOMAIN assigned : is_none(assigned[k])
                     THEN Err("panic", "None in variable map after assignment.")
                     ELSE Ok([i \in 1 .. Len(order) |-> unwrap(assigned[order[i]])])]

\* eval, before the loop: the lookup of the entry node
eval_enter(d) ==
    IF d.entry_node \in DOMAIN d.nodes
    THEN Ok(d.entry_node)
    ELSE EvaluationError("Unable to grab entry node")

\* an eval iteration that refuses a branch back to the node it is at
eval_step_guarded(d, cur) ==
    LET cur_node_ == d.nodes[cur]
    IN IF cur_node_.kind = "Terminal"
       THEN [done |-> TRUE, ret |-> Ok(cur_node_.value)]
       ELSE LET decision_node == cur_node_.node
            IN IF decision_node.variable_id \notin DOMAIN d.variables
               THEN [done |-> TRUE,
                     ret |-> Err("panic", "Decision variable not present in map.")]
               ELSE LET next_node == evaluate(decision_node,
                                              d.variables[decision_node.variable_id])
                    IN IF ~next_node.ok THEN [done |-> TRUE, ret |-> next_node]
                       ELSE IF next_node.val \notin DOMAIN d.nodes \/ next_node.val = cur
                       THEN [done |-> TRUE,
                             ret |-> EvaluationError("Could not traverse to next node")]
                       ELSE [done |-> FALSE, next |-> next_node.val]
\* eval, one iteration of the loop at node id cur:
\* [done |-> TRUE, ret |-> the returned Result] or [done |-> FALSE, next |-> id]
eval_step(d, cur) ==
    LET cur_node_ == d.nodes[cur]
    IN IF cur_node_.kind = "Terminal"
       THEN [done |-> TRUE, ret |-> Ok(cur_node_.value)]
       ELSE LET decision_node == cur_node_.node
            IN IF decision_node.variable_id \notin DOMAIN d.variables
               THEN [done |-> TRUE,
                     ret |-> Err("panic", "Decision variable not present in map.")]
               ELSE LET next_node == evaluate(decision_node,
                                              d.variables[decision_node.variable_id])
                    IN IF ~next_node.ok THEN [done |-> TRUE, ret |-> next_node]
                       ELSE IF next_node.val \notin DOMAIN d.nodes
                       THEN [done |-> TRUE,
                             ret |-> EvaluationError("Could not traverse to next node")]
                       ELSE [done |-> FALSE, next |-> next_node.val]

\* the eval loop run to its end.  The walk is deterministic, so a walk that has
\* not returned after as many moves as there are nodes is on a cycle and never
\* returns: Err("diverge", ..) stands for that.
RECURSIVE eval_loop(_, _, _)
eval_loop(d, cur, fuel) ==
    LET s == eval_step(d, cur)
    IN IF s.done THEN s.ret
       ELSE IF fuel = 0 THEN Err("diverge", "eval does not return")
       ELSE eval_loop(d, s.next, fuel - 1)

eval(d) ==
    IF ~eval_enter(d).ok THEN eval_enter(d)
    ELSE eval_loop(d, eval_enter(d).val, len(d.nodes))

\* lib.rs convert_bits_to_bools
RECURSIVE convert_bits_to_bools(_, _)
convert_bits_to_bools(bits, num_vars) ==
    IF num_vars = 0 THEN <<>>
    ELSE <<(bits % 2) = 1>> \o convert_bits_to_bools(bits \div 2, num_vars - 1)

\* lib.rs byte_to_bools: the eight bits of a u8, lowest first
RECURSIVE byte_to_bools_loop(_, _)
byte_to_bools_loop(cur_bits, tracker) ==
    IF tracker = 0 THEN <<>>
    ELSE <<(cur_bits % 2) = 1>> \o byte_to_bools_loop(cur_bits \div 2, tracker - 1)
byte_to_bools(byte) == byte_to_bools_loop(byte, 8)

\* `1 << n` on a usize.  A shift by the full width overflows: a build with
\* overflow checks panics, a build without masks the shift amount.
shl_one(n, build) ==
    IF n < BITS THEN Ok(2^n)
    ELSE IF build = "debug" THEN Err("panic", "attempt to shift left with overflow")
    ELSE Ok(2^(n % BITS))

Builds == {"debug", "release"}

\* the loop of truth_table from pattern var_set on
RECURSIVE truth_table_loop(_, _, _, _, _)
truth_table_loop(d, var_set, combinations, results, order) ==
    IF var_set >= combinations THEN [variables |-> d.variables, ret |-> Ok(results)]
    ELSE LET vars == convert_bits_to_bools(var_set, len(d.variables))
             a == assign_vars(d, vars, order)
             d1 == [d EXCEPT !.variables = a.variables]
         IN IF ~a.ret.ok THEN [variables |-> a.variables, ret |-> a.ret]
            ELSE IF ~eval(d1).ok THEN [variables |-> d1.variables, ret |-> eval(d1)]
            ELSE truth_table_loop(d1, var_set + 1, combinations,
                                  Append(results, eval(d1).val), order)

\* truth_table; `order` is the iteration order of the variable map
truth_table(d, build, order) ==
    IF len(d.variables) > BITS
    THEN [variables |-> d.variables, ret |-> EvaluationError("Too many variables")]
    ELSE LET combinations == shl_one(len(d.variables), build)
         IN IF ~combinations.ok
            THEN [variables |-> d.variables, ret |-> combinations]
            ELSE truth_table_loop(d, 0, combinations.val, <<>>, order)

\* --------------------------------------------------------------- formatter
\* Display for DecisionNode
fmt_decision(node) ==
    <<ToString(node.decision_map[2]), ToString(node.decision_map[1]),
      ToString(node.variable_id)>>

\* Display for BinaryNode
fmt_node(n) ==
    IF n.kind = "Decision" THEN fmt_decision(n.node)
    ELSE IF n.value THEN <<"-1", "-1", "1">>
    ELSE <<"-1", "-1", "0">>

\* Display for BinaryDecisionDiagram; `order` is the iteration order of the
\* node map.  The text is given as the token lines it splits into.
fmt(d, order) ==
    << <<"vars", ToString(len(d.variables))>>,
       <<"nodes", ToString(len(d.nodes))>> >>
    \o [i \in 1 .. Len(order) |-> <<ToString(order[i])>> \o fmt_node(d.nodes[order[i]])]

\* ------------------------------------------------------------------ inputs
\* node ids 0 .. 3, variable ids 0 .. 2
FalseAt1 == <<"1", "-1", "-1", "0">>
TrueAt2 == <<"2", "-1", "-1", "1">>
TrueAt0 == <<"0", "-1", "-1", "1">>
\* node 0 on variable 2: true -> 2, false -> 3
Upper0 == <<"0", "2", "3", "2">>
\* node 3 on variable 1: true -> 2, false -> 1
Lower3 == <<"3", "2", "1", "1">>
\* node 0 on variable 0: true -> 0 (itself), false -> 1
Loop0 == <<"0", "0", "1", "0">>
\* node 0 on variable 0 with one negative branch
HalfNeg0 == <<"0", "2", "-1", "0">>
\* a line that lacks its last two tokens
Short1 == <<"1", "-1">>

NodeLines == {FalseAt1, TrueAt2, TrueAt0, Upper0, Lower3, Loop0, HalfNeg0}

RECURSIVE SeqsUpTo(_, _)
SeqsUpTo(S, n) ==
    IF n = 0 THEN {<<>>}
    ELSE LET shorter == SeqsUpTo(S, n - 1)
         IN shorter \cup { Append(q, x) : q \in { r \in shorter : Len(r) = n - 1 }, x \in S }

Header(num_vars, num_nodes) ==
    << <<"vars", ToString(num_vars)>>, <<"nodes", ToString(num_nodes)>> >>

\* every body of at most MaxLines node lines
Bodies == SeqsUpTo(NodeLines, MaxLines)

\* n variables: node 0 is the false terminal, node 1 the true terminal, node
\* k+1 decides on variable k-1 (k = 1 .. n): true -> 1, false -> the next
\* decision node while an isize token can name it, else -> 0
WideLine(n, k) ==
    <<ToString(k + 1), "1",
      IF k < n /\ k + 2 <= ISIZE_MAX THEN ToString(k + 2) ELSE "0",
      ToString(k - 1)>>
WideText(n) ==
    Header(n, n + 2)
    \o [k \in 1 .. n |-> WideLine(n, k)]
    \o << <<"0", "-1", "-1", "0">>, <<"1", "-1", "-1", "1">> >>

\* texts with a broken header or a broken node line
BrokenTexts ==
    { <<>>, << <<"vars", "1">> >>, << <<"vars">>, <<"nodes", "3">> >>,
      << <<"vars", "1">>, <<"nodes", "-3">> >>,
      Header(1, 3) \o <<Lower3, Short1, TrueAt2>>,
      Header(1, 2) \o <<Loop0>>, Header(2, 1) \o <<Loop0>>,
      Header(1, 1) \o << <<"-1", "0", "0", "0">> >> }

WideTexts == { WideText(n) : n \in 1 .. BITS + 1 }

\* node 3 on variable 1: true -> 0 (back to the entry node), false -> 1
Back3 == <<"3", "0", "1", "1">>
\* a diagram with the cycle 0 -> 3 -> 0 under variable 2 false, variable 1 true
CyclicTexts == { Header(2, 4) \o <<Upper0, Back3, FalseAt1, TrueAt2>> }

\* the value sequences a caller passes: of every length up to maxlen, the
\* constant sequences and those that change value once
StepSeq(n, first, flip) == [i \in 1 .. n |-> IF i <= flip THEN first ELSE ~first]
ValueSeqs(maxlen) ==
    { StepSeq(n, first, flip) : n \in 0 .. maxlen, first \in BOOLEAN, flip \in 0 .. maxlen }

\* ------------------------------------------------------------------- state
VARIABLES
    input,     \* the text not yet handed to from_str
    pc,        \* "start", "failed", "ready", "eval", "hung", "panicked"
    bdd,       \* the BinaryDecisionDiagram: variables, nodes, entry_node
    cur_node,  \* eval's position: the id of the node cur_node refers to
    ret        \* the last call: [op, arg, res]

vars == <<input, pc, bdd, cur_node, ret>>

NoDiagram == [variables |-> EmptyMap, nodes |-> EmptyMap, entry_node |-> 0]
Call(op, arg, res) == [op |-> op, arg |-> arg, res |-> res]

Init ==
    /\ \/ \E body \in Bodies, num_vars \in 1 .. 2, missing \in 0 .. 1 :
             \* declares one or two variables and as many nodes as the body
             \* has lines, or one less
             input = Header(num_vars, Len(body) - missing) \o body
       \/ input \in WideTexts
       \/ input \in BrokenTexts
       \/ input \in CyclicTexts
    /\ pc = "start"
    /\ bdd = NoDiagram
    /\ cur_node = 0
    /\ ret = Call("none", <<>>, Ok(<<>>))

\* where a call that returned res leaves the caller
After(res) ==
    IF res.ok THEN "ready"
    ELSE IF res.kind = "panic" THEN "panicked"
    ELSE IF res.kind = "diverge" THEN "hung"
    ELSE "ready"

\* text.parse::<BinaryDecisionDiagram>()
FromStr ==
    /\ pc = "start"
    /\ LET r == from_str(input)
       IN /\ ret' = Call("from_str", input, IF r.ok THEN Ok(<<>>) ELSE r)
          /\ bdd' = IF r.ok THEN r.val ELSE bdd
          /\ pc' = IF r.ok THEN "ready" ELSE "failed"
    /\ input' = <<>>
    /\ UNCHANGED cur_node

\* bdd.assign_vars(&values)
AssignVars ==
    /\ pc = "ready"
    /\ \E values \in ValueSeqs(len(bdd.variables) + MaxSurplus),
          order \in IterOrders(Keys(bdd.variables)) :
          LET a == assign_vars(bdd, values, order)
          IN /\ bdd' = [bdd EXCEPT !.variables = a.variables]
             /\ ret' = Call("assign_vars", values, a.ret)
             /\ pc' = After(a.ret)
    /\ UNCHANGED <<input, cur_node>>

\* bdd.eval(), up to the loop
EvalCall ==
    /\ pc = "ready"
    /\ LET e == eval_enter(bdd)
       IN IF e.ok
          THEN /\ pc' = "eval"
               /\ cur_node' = e.val
               /\ ret' = Call("eval", <<>>, Ok(<<>>))
          ELSE /\ pc' = "ready"
               /\ ret' = Call("eval", <<>>, e)
               /\ UNCHANGED cur_node
    /\ UNCHANGED <<input, bdd>>

\* bdd.eval(), one iteration of the loop
EvalStep ==
    /\ pc = "eval"
    /\ LET s == eval_step(bdd, cur_node)
       IN IF s.done
          THEN /\ pc' = After(s.ret)
               /\ ret' = Call("eval", <<>>, s.ret)
               /\ UNCHANGED cur_node
          ELSE /\ cur_node' = s.next
               /\ UNCHANGED <<pc, ret>>
    /\ UNCHANGED <<input, bdd>>

\* bdd.truth_table()
TruthTable ==
    /\ pc = "ready"
    /\ \E build \in Builds, order \in IterOrders(Keys(bdd.variables)) :
          LET t == truth_table(bdd, build, order)
          IN /\ bdd' = [bdd EXCEPT !.variables = t.variables]
             /\ ret' = Call("truth_table", <<build>>, t.ret)
             /\ pc' = After(t.ret)
    /\ UNCHANGED <<input, cur_node>>

\* format!("{bdd}")
Fmt ==
    /\ pc = "ready"
    /\ \E order \in IterOrders(Keys(bdd.nodes)) :
          ret' = Call("fmt", <<>>, Ok(fmt(bdd, order)))
    /\ UNCHANGED <<input, pc, bdd, cur_node>>

Next ==
    \/ FromStr
    \/ AssignVars
    \/ EvalCall
    \/ EvalStep
    \/ TruthTable
    \/ Fmt

Spec == Init /\ [][Next]_vars

\* ------------------------------------------------------ interactive shell
\* main.rs: the prompt loop over one ApplicationContext.  The context's
\* logical_artifact is the state variable bdd, NoDiagram standing for None (a
\* parsed diagram always has nodes); pc is "prompt" at the top of the loop,
\* "exited" once main has returned, "panicked" or "hung" otherwise; ret is the
\* last line's command and what became of it.

\* the files a read command can name, by path; any other path is unreadable
Files ==
    [path \in {"two.bdd", "cycle.bdd", "loop.bdd", "wide.bdd", "broken.bdd"} |->
        CASE path = "two.bdd" -> Header(2, 4) \o <<Upper0, Lower3, FalseAt1, TrueAt2>>
          [] path = "cycle.bdd" -> Header(2, 4) \o <<Upper0, Back3, FalseAt1, TrueAt2>>
          [] path = "loop.bdd" -> Header(1, 3) \o <<Loop0, FalseAt1, TrueAt2>>
          [] path = "wide.bdd" -> WideText(BITS)
          [] path = "broken.bdd" -> Header(1, 3) \o <<Lower3, Short1, TrueAt2>>]
Paths == DOMAIN Files \cup {"missing.bdd"}

\* fs::read_to_string
read_to_string(path) ==
    IF path \in DOMAIN Files THEN Ok(Files[path])
    ELSE Err("String", "No such file or directory (os error 2)")

\* the value of a hexadecimal digit
HexValue ==
    [c \in {"0", "1", "2", "3", "4", "5", "6", "7", "8", "9",
            "a", "b", "c", "d", "e", "f"} |->
        CASE c = "0" -> 0 [] c = "1" -> 1 [] c = "2" -> 2 [] c = "3" -> 3
          [] c = "4" -> 4 [] c = "5" -> 5 [] c = "6" -> 6 [] c = "7" -> 7
          [] c = "8" -> 8 [] c = "9" -> 9 [] c = "a" -> 10 [] c = "b" -> 11
          [] c = "c" -> 12 [] c = "d" -> 13 [] c = "e" -> 14 [] c = "f" -> 15]

\* u8::from_str_radix(s, 16) on a slice of two characters
from_str_radix(s) ==
    IF s[1] \in DOMAIN HexValue /\ s[2] \in DOMAIN HexValue
    THEN Ok(16 * HexValue[s[1]] + HexValue[s[2]])
    ELSE IF s[1] = "+" /\ s[2] \in DOMAIN HexValue THEN Ok(HexValue[s[2]])
    ELSE Err("ParseIntError", "invalid digit found in string")

\* the bytes of a hex argument, a sequence of characters: slices of two from
\* the (1-based) position index on.  The iterator is lazy, so a bad slice ends
\* the decoding before any later slice is taken; a last slice of one character
\* reaches past the end of the string and panics.
RECURSIVE decode_hex(_, _, _)
decode_hex(hex, index, bytes) ==
    IF index > Len(hex) THEN Ok(bytes)
    ELSE IF index + 1 > Len(hex)
    THEN Err("panic", "byte index out of range")
    ELSE LET byte == from_str_radix(SubSeq(hex, index, index + 1))
         IN IF ~byte.ok THEN Err("String", "Input must be a hex digit number.")
            ELSE decode_hex(hex, index + 2, Append(bytes, byte.val))

\* .iter().flat_map(|byte| byte_to_bools(*byte)).collect()
RECURSIVE flat_map_bools(_)
flat_map_bools(bytes) ==
    IF bytes = <<>> THEN <<>>
    ELSE byte_to_bools(Head(bytes)) \o flat_map_bools(Tail(bytes))

\* the commands parse_command can produce
ReadCommand(type, file) == [action |-> "Read", type |-> type, file |-> file]
HexCommand(hex) == [action |-> "Evaluate", hex |-> Some(hex), bools |-> None]
BoolsCommand(bools) == [action |-> "Evaluate", hex |-> None, bools |-> Some(bools)]
QuitCommand == [action |-> "Quit"]

\* the context's logical_artifact as an Option
logical_artifact == IF bdd = NoDiagram THEN None ELSE Some(bdd)

\* respond's `.map_err(|e| match e { .. => str })`: the error's message
map_err(res) ==
    IF res.ok \/ res.kind \in {"panic", "diverge"} THEN res
    ELSE Err("String", res.msg)

\* respond on an evaluate command, the artifact at hand
respond_evaluate(args, artifact, order) ==
    LET bools == IF args.hex # None
                 THEN LET bytes == decode_hex(unwrap(args.hex), 1, <<>>)
                      IN IF bytes.ok THEN Ok(flat_map_bools(bytes.val)) ELSE bytes
                 ELSE Ok(unwrap(args.bools))
    IN IF ~bools.ok THEN [artifact |-> Some(artifact), ret |-> bools]
       ELSE LET a == assign_vars(artifact, bools.val, order)
                assigned == [artifact EXCEPT !.variables = a.variables]
            IN IF ~a.ret.ok
               THEN [artifact |-> Some(assigned), ret |-> map_err(a.ret)]
               ELSE LET result == eval(assigned)
                    IN [artifact |-> Some(assigned),
                        ret |-> IF result.ok THEN Ok(FALSE) ELSE map_err(result)]

\* respond: the context's artifact afterwards and the returned Result, Ok(TRUE)
\* asking main to return; `order` is the iteration order of the variable map
respond(command, artifact, order) ==
    IF command.action = "Read"
    THEN IF command.type = "xbar"
         THEN [artifact |-> artifact, ret |-> Err("panic", "not yet implemented")]
         ELSE LET text == read_to_string(command.file)
              IN IF ~text.ok THEN [artifact |-> artifact, ret |-> text]
                 ELSE LET parsed == from_str(text.val)
                      IN IF ~parsed.ok
                         THEN [artifact |-> artifact, ret |-> map_err(parsed)]
                         ELSE [artifact |-> Some(parsed.val), ret |-> Ok(FALSE)]
    ELSE IF command.action = "Evaluate"
    THEN IF artifact = None
         THEN [artifact |-> artifact,
               ret |-> Err("String", "Must read in a logical artifact.")]
         ELSE respond_evaluate(command, unwrap(artifact), order)
    ELSE [artifact |-> artifact, ret |-> Ok(TRUE)]

\* the characters of the hex arguments tried, and the arguments
HexChars == {"0", "2", "f", "g"}
HexArgs == UNION { [1 .. n -> HexChars] : n \in 0 .. MaxHex }
\* the values of the bools arguments tried (clap asks for at least one)
BoolsArgs == ValueSeqs(MaxBools) \ {<<>>}

ShellInit ==
    /\ input = <<>>
    /\ pc = "prompt"
    /\ bdd = NoDiagram
    /\ cur_node = 0
    /\ ret = Call("none", <<>>, Ok(<<>>))

\* where main is after respond returned res: `if respond(..)? { return Ok(()) }`
AfterRespond(res) ==
    IF ~res.ok THEN IF res.kind = "panic" THEN "panicked"
                    ELSE IF res.kind = "diverge" THEN "hung"
                    ELSE "exited"
    ELSE IF res.val THEN "exited"
    ELSE "prompt"

\* one turn of main's loop on a line that parses to `command`
Respond(command) ==
    /\ pc = "prompt"
    /\ \E order \in IterOrders(Keys(bdd.variables)) :
          LET r == respond(command, logical_artifact, order)
          IN /\ bdd' = IF r.artifact = None THEN NoDiagram ELSE unwrap(r.artifact)
             /\ ret' = Call(command.action, command, r.ret)
             /\ pc' = AfterRespond(r.ret)
    /\ UNCHANGED <<input, cur_node>>

\* read_line()? fails: writing the prompt or reading stdin gave an I/O error
ReadLineFails ==
    /\ pc = "prompt"
    /\ pc' = "exited"
    /\ ret' = Call("read_line", <<>>, Err("String", "I/O error"))
    /\ UNCHANGED <<input, bdd, cur_node>>

\* a line that is empty once trimmed: continue
EmptyLine ==
    /\ pc = "prompt"
    /\ ret' = Call("trim", <<>>, Ok(<<>>))
    /\ UNCHANGED <<input, pc, bdd, cur_node>>

\* a line clap rejects: parse_command prints clap's error and returns None
UnknownCommand ==
    /\ pc = "prompt"
    /\ ret' = Call("parse_command", <<>>, Ok(None))
    /\ UNCHANGED <<input, pc, bdd, cur_node>>

\* read <type> <file>
Read == \E type \in {"bdd", "xbar"}, file \in Paths : Respond(ReadCommand(type, file))

\* evaluate -x <hex>
EvaluateHex == \E hex \in HexArgs : Respond(HexCommand(hex))

\* evaluate -b <bools>
EvaluateBools == \E bools \in BoolsArgs : Respond(BoolsCommand(bools))

\* quit
Quit == Respond(QuitCommand)

ShellNext ==
    \/ ReadLineFails
    \/ EmptyLine
    \/ UnknownCommand
    \/ Read
    \/ EvaluateHex
    \/ EvaluateBools
    \/ Quit

ShellSpec == ShellInit /\ [][ShellNext]_vars

\* ------------------------------------------------------------------ claims
num_variables == len(bdd.variables)
AllAssigned == \A k \in Keys(bdd.variables) : ~is_none(bdd.variables[k])
AllUnassigned == \A k \in Keys(bdd.variables) : is_none(bdd.variables[k])
Returned(op) == ret.op = op /\ pc \in {"ready", "failed"}

\* bit k of i, least significant first, as the n-long boolean sequence
bits_of(i, n) == [k \in 1 .. n |-> ((i \div 2^(k - 1)) % 2) = 1]
\* the number of keys below k: k is the (Rank + 1)-th smallest key
Rank(S, k) == Cardinality({ j \in S : j < k })
\* eval() after assign_vars(values) on diagram d
EvalAfterAssign(d, values) ==
    eval([d EXCEPT !.variables = assign_vars(d, values, Ascending(Keys(d.variables))).variables])

\* C1: whenever truth_table() returns a sequence for a diagram with n <= BITS
\* variables, the sequence has exactly 2^n elements and the element at index i
\* is the result of eval() after assign_vars(bits_of(i)).
C1_TruthTableRows ==
    (Returned("truth_table") /\ ret.res.ok /\ num_variables <= BITS) =>
        /\ Len(ret.res.val) = 2^num_variables
        /\ \A i \in 0 .. 2^num_variables - 1 :
              EvalAfterAssign(bdd, bits_of(i, num_variables)) = Ok(ret.res.val[i + 1])

\* C2: after a successful assign_vars(values) the variable with the i-th
\* smallest id holds values[i], whatever ids the diagram uses and whatever
\* order they were met in.
C2_AssignInIdOrder ==
    (Returned("assign_vars") /\ ret.res.ok) =>
        \A k \in Keys(bdd.variables) :
            bdd.variables[k] = Some(ret.arg[Rank(Keys(bdd.variables), k) + 1])

\* a diagram whose entry node decides on variable 2 (met first) and that also
\* has variable 1, assigned <<TRUE, FALSE, ..>>: 1 holds TRUE and 2 holds FALSE
C2_Witness ==
    /\ Returned("assign_vars") /\ ret.res.ok
    /\ Keys(bdd.variables) = {1, 2}
    /\ bdd.nodes[bdd.entry_node] = Decision(new_node(3, 2, 2))
    /\ Len(ret.arg) >= 2 /\ ret.arg[1] = TRUE /\ ret.arg[2] = FALSE
    /\ bdd.variables[1] = Some(TRUE) /\ bdd.variables[2] = Some(FALSE)

\* C3 as stated: assign_vars fails with an assignment error whenever the
\* number of values differs from the number of variables, shorter or longer.
C3_LengthMustMatch ==
    (Returned("assign_vars") /\ Len(ret.arg) # num_variables) =>
        (~ret.res.ok /\ ret.res.kind = "VariableAssignmentError")

\* C3 amended: assign_vars fails with an assignment error exactly when it is
\* given fewer values than there are variables; given as many or more it
\* succeeds.
C3_ShortMustFail ==
    Returned("assign_vars") =>
        IF Len(ret.arg) < num_variables
        THEN ~ret.res.ok /\ ret.res.kind = "VariableAssignmentError"
        ELSE ret.res.ok

\* a call with too few values that failed, on a diagram with two variables
C3_Witness ==
    /\ Returned("assign_vars")
    /\ num_variables = 2 /\ Len(ret.arg) = 1
    /\ ~ret.res.ok /\ ret.res.kind = "VariableAssignmentError"

\* a diagram that meets the data model: its entry node is a decision node,
\* every branch names a node, every variable is decided on by some node
ValidDiagram(d) ==
    /\ d.entry_node \in DOMAIN d.nodes
    /\ d.nodes[d.entry_node].kind = "Decision"
    /\ \A k \in DOMAIN d.nodes :
          d.nodes[k].kind = "Decision" =>
              /\ d.nodes[k].node.decision_map[1] \in DOMAIN d.nodes
              /\ d.nodes[k].node.decision_map[2] \in DOMAIN d.nodes
    /\ \A v \in Keys(d.variables) :
          \E k \in DOMAIN d.nodes :
              d.nodes[k].kind = "Decision" /\ d.nodes[k].node.variable_id = v

\* C4: the text the formatter produces for a valid diagram parses again, into a
\* diagram with the same number of variables and of nodes that evaluates like
\* the original under every assignment, whatever order the nodes were emitted in.
C4_RoundTrip ==
    (Returned("fmt") /\ ValidDiagram(bdd)) =>
        LET r == from_str(ret.res.val)
        IN /\ r.ok
           /\ len(r.val.variables) = len(bdd.variables)
           /\ len(r.val.nodes) = len(bdd.nodes)
           /\ \A values \in [1 .. num_variables -> BOOLEAN] :
                 EvalAfterAssign(r.val, values) = EvalAfterAssign(bdd, values)

\* C5: after a successful parse entry_node is a key of the node map and the
\* node stored under it is a decision node.
C5_EntryIsDecision ==
    (Returned("from_str") /\ ret.res.ok) =>
        /\ bdd.entry_node \in DOMAIN bdd.nodes
        /\ bdd.nodes[bdd.entry_node].kind = "Decision"

\* the node lines of a text, and what their tokens say
NodeLinesOf(s) == { i \in 3 .. Len(s) : TRUE }
IsNegative(tok) == tok \in Numerals /\ NumeralValue(tok) < 0
IsTerminalLine(line) == Len(line) >= 4 /\ IsNegative(line[2]) /\ IsNegative(line[3])
DecisionVarIds(s) ==
    { NumeralValue(s[i][4]) : i \in { j \in NodeLinesOf(s) : ~IsTerminalLine(s[j]) } }
Declared(s, i) == NumeralValue(s[i][2])

\* C6: parsing succeeds only if the declared variable count is the number of
\* distinct variable ids on decision lines and the declared node count is the
\* number of node lines.
C6_DeclaredCounts ==
    (Returned("from_str") /\ ret.res.ok) =>
        /\ Declared(ret.arg, 1) = Cardinality(DecisionVarIds(ret.arg))
        /\ Declared(ret.arg, 2) = Cardinality(NodeLinesOf(ret.arg))

HasTerminalLine(s, b) ==
    \E i \in NodeLinesOf(s) : IsTerminalLine(s[i]) /\ ((s[i][4] = "1") = b)

\* C7: a parsed diagram holds a true terminal and a false terminal; a text
\* parses only if it has a true-terminal line and a false-terminal line, and
\* fails with a parse error otherwise.
C7_BothPolarities ==
    Returned("from_str") =>
        IF ret.res.ok
        THEN /\ \E k \in DOMAIN bdd.nodes : bdd.nodes[k] = Terminal(TRUE)
             /\ \E k \in DOMAIN bdd.nodes : bdd.nodes[k] = Terminal(FALSE)
             /\ HasTerminalLine(ret.arg, TRUE)
             /\ HasTerminalLine(ret.arg, FALSE)
        ELSE ret.res.kind = "ParseError"

\* a text with a true-terminal line and no false-terminal line, rejected by the
\* polarity check
C7_Witness ==
    /\ Returned("from_str")
    /\ ret.res = ParseError("Not both types of terminal nodes.")
    /\ HasTerminalLine(ret.arg, TRUE)
    /\ ~HasTerminalLine(ret.arg, FALSE)

\* C8: on a parsed diagram with a decision node, eval() with no variable yet
\* assigned fails with an evaluation error.
C8_UnassignedEvalFails ==
    (/\ Returned("eval")
     /\ AllUnassigned
     /\ \E k \in DOMAIN bdd.nodes : bdd.nodes[k].kind = "Decision") =>
        (~ret.res.ok /\ ret.res.kind = "EvaluationError")

\* the branch of decision node n under the current variable values
BranchTaken(n) ==
    IF bdd.variables[n.node.variable_id] = Some(TRUE)
    THEN n.node.decision_map[2]
    ELSE n.node.decision_map[1]

C9_Step ==
    AllAssigned =>
        /\ (pc = "ready" /\ ret'.op = "eval") =>
              IF bdd.entry_node \in DOMAIN bdd.nodes
              THEN pc' = "eval" /\ cur_node' = bdd.entry_node
              ELSE pc' = "ready" /\ ~ret'.res.ok /\ ret'.res.kind = "EvaluationError"
        /\ pc = "eval" =>
              LET n == bdd.nodes[cur_node]
              IN IF n.kind = "Terminal"
                 THEN pc' = "ready" /\ ret'.res = Ok(n.value)
                 ELSE IF BranchTaken(n) \in DOMAIN bdd.nodes
                 THEN pc' = "eval" /\ cur_node' = BranchTaken(n)
                 ELSE pc' = "ready" /\ ~ret'.res.ok /\ ret'.res.kind = "EvaluationError"

\* C9: with every variable assigned, eval() starts at entry_node, moves from a
\* decision node to its true branch when the node's variable is true and to its
\* false branch when it is false, returns the value of the first terminal it
\* reaches, and fails with an evaluation error when the node to visit is not in
\* the node map.
C9_EvalFollowsBranches == [][C9_Step]_vars

\* an eval() with every variable assigned that walked onto a missing node
C9_Witness ==
    /\ Returned("eval")
    /\ AllAssigned
    /\ ret.res = EvaluationError("Could not traverse to next node")

\* C10: truth_table() fails at once with an evaluation error when there are
\* more than BITS variables, and otherwise the number of patterns it
\* enumerates, 1 << n in a BITS-bit word, is 2^n.
C10_GuardAndPatternCount ==
    ret.op = "truth_table" =>
        IF num_variables > BITS
        THEN pc = "ready" /\ ret.res = EvaluationError("Too many variables")
        ELSE pc # "panicked" /\ shl_one(num_variables, ret.arg[1]) = Ok(2^num_variables)

\* C11: given more values than the diagram has variables, assign_vars succeeds
\* and binds the first n values to the variables in ascending id order; the
\* surplus values are ignored.
C11_SurplusIgnored ==
    (ret.op = "assign_vars" /\ Len(ret.arg) > num_variables) =>
        /\ pc = "ready"
        /\ ret.res.ok
        /\ \A k \in Keys(bdd.variables) :
              bdd.variables[k] = Some(SubSeq(ret.arg, 1, num_variables)
                                          [Rank(Keys(bdd.variables), k) + 1])

\* a one-variable diagram given <<TRUE, FALSE>>: the variable holds TRUE
C11_Witness ==
    /\ Returned("assign_vars") /\ ret.res.ok
    /\ num_variables = 1
    /\ ret.arg = <<TRUE, FALSE>>
    /\ \A k \in Keys(bdd.variables) : bdd.variables[k] = Some(TRUE)

\* the parts of the diagram that parsing fixes
Structure(d) == <<d.nodes, d.entry_node, Keys(d.variables)>>

C12_Step ==
    pc # "start" =>
        /\ Structure(bdd') = Structure(bdd)
        /\ (pc = "eval" \/ ret'.op = "eval") => bdd' = bdd

\* C12: after parsing, no assign_vars, eval or truth_table call, successful or
\* failing, changes the node map, entry_node or the set of variable ids, and
\* eval() changes nothing of the diagram at all.
C12_StructureImmutable == [][C12_Step]_vars

\* a successful assign_vars that changed a variable's value on a diagram with
\* variable ids 1 and 2
C12_Witness ==
    /\ Returned("assign_vars") /\ ret.res.ok
    /\ Keys(bdd.variables) = {1, 2}
    /\ bdd.variables[1] = Some(FALSE) /\ bdd.variables[2] = Some(TRUE)
    /\ ret.arg = <<FALSE, TRUE>>

\* the node ids eval visits from node cur on, path being those visited so far:
\* the walk ends at a terminal, at a branch to a missing node, or at the first
\* node met a second time (which then ends the sequence)
RECURSIVE Walk(_, _, _)
Walk(d, cur, path) ==
    IF d.nodes[cur].kind = "Terminal" THEN path
    ELSE LET n == d.nodes[cur].node
             target == IF d.variables[n.variable_id] = Some(TRUE)
                       THEN n.decision_map[2] ELSE n.decision_map[1]
         IN IF target \notin DOMAIN d.nodes THEN path
            ELSE IF \E i \in 1 .. Len(path) : path[i] = target THEN Append(path, target)
            ELSE Walk(d, target, Append(path, target))
WalkPath(d) == Walk(d, d.entry_node, <<d.entry_node>>)
Revisits(d) ==
    LET p == WalkPath(d) IN \E i \in 1 .. Len(p) - 1 : p[i] = p[Len(p)]

C13_Step ==
    (pc = "eval" /\ AllAssigned) =>
        IF Revisits(bdd)
        THEN pc' = "eval"
        ELSE LET p == WalkPath(bdd)
             IN /\ Len(p) <= len(bdd.nodes)
                /\ \E i \in 1 .. Len(p) :
                      /\ p[i] = cur_node
                      /\ IF i < Len(p)
                         THEN pc' = "eval" /\ cur_node' = p[i + 1]
                         ELSE pc' = "ready" /\ ret'.op = "eval"

\* C13: with every variable assigned, an eval() whose path from entry_node
\* meets no node twice returns after visiting at most as many nodes as the
\* diagram has: the path is that short, every iteration of the loop moves one
\* place along it, and the loop can always take its next iteration until it
\* returns at the path's end.  An eval() whose path meets a node again never
\* returns: every iteration leaves it inside the loop.
C13_ReturnsIffNoRevisit ==
    /\ [][C13_Step]_vars
    /\ [](pc = "eval" => ENABLED EvalStep)

\* an eval() on the cycle 0 -> 3 -> 0, back at the entry node
C13_Witness ==
    /\ pc = "eval" /\ AllAssigned
    /\ Revisits(bdd)
    /\ WalkPath(bdd) = <<0, 3, 0>>
    /\ cur_node = 3

\* every state the variable map of diagram d can be in
VariableStates(d) == [Keys(d.variables) -> {None, Some(FALSE), Some(TRUE)}]

\* C14: the result of truth_table() is the same whatever values the variables
\* held before the call.
C14_TruthTableIgnoresPriorValues ==
    ret.op = "truth_table" =>
        \A v \in VariableStates(bdd), order \in IterOrders(Keys(bdd.variables)) :
            truth_table([bdd EXCEPT !.variables = v], ret.arg[1], order).ret = ret.res

\* a two-variable table with both values in it, computed from assigned variables
C14_Witness ==
    /\ Returned("truth_table") /\ ret.res.ok
    /\ num_variables = 2
    /\ Len(ret.res.val) = 4
    /\ \E i, j \in 1 .. 4 : ret.res.val[i] /\ ~ret.res.val[j]

C15_Step ==
    (pc = "ready" /\ ret'.op = "truth_table" /\ pc' \in {"ready", "failed"}) =>
        bdd'.variables = bdd.variables

\* C15: after truth_table() returns, every variable holds what it held
\* immediately before the call (assigned true, assigned false or unassigned).
C15_TruthTableRestores == [][C15_Step]_vars

\* a command that respond answered with an error message
CommandFailed == ret.op \in {"Read", "Evaluate"} /\ ~ret.res.ok /\ ret.res.kind = "String"

\* C16: in the shell loop a command that fails is followed by the next prompt,
\* and the process ends only on quit or on an I/O failure of the prompt.
C16_ShellContinuesAfterFailure ==
    /\ CommandFailed => pc = "prompt"
    /\ pc = "exited" => ret.op \in {"Quit", "read_line"}

C17_Step == (pc # "start" /\ AllAssigned) => AllAssigned'

\* C17: a successful assign_vars leaves every variable assigned, and no later
\* assign_vars, eval or truth_table, failing or not, leaves one unassigned; so
\* assign_vars never panics over a None in the variable map, and an eval() on
\* variables that were once all assigned never fails for an unassigned variable.
C17_AssignednessMonotone ==
    /\ []((ret.op = "assign_vars" /\ ret.res.ok) => AllAssigned)
    /\ [][C17_Step]_vars
    /\ [](~ret.res.ok => ret.res.msg # "None in variable map after assignment.")
    /\ []((AllAssigned /\ Returned("eval") /\ ~ret.res.ok) =>
             ret.res.msg # "Cannot evaluate node for an unassigned variable.")

\* a failing assign_vars (too few values) on two variables assigned before
C17_Witness ==
    /\ Returned("assign_vars") /\ ~ret.res.ok
    /\ num_variables = 2
    /\ AllAssigned
    /\ Len(ret.arg) = 1

====
